---------------------------- MODULE Spec2Model ----------------------------
(***************************************************************************)
(* A model of foa_extract: source selection (IngestorFactory), the two     *)
(* ingestors' extract methods, render_with_selenium, fetch_with_retry,     *)
(* identifier resolution from the URL and label-based field resolution.    *)
(*                                                                         *)
(* Strings are sequences of tokens.  A token is a chunk of characters; the *)
(* token alphabets are chosen so that a regular expression of the source   *)
(* matches the characters exactly when its token-level translation matches *)
(* the tokens (no token of an alphabet occurs inside a concatenation of    *)
(* other tokens, and a maximal run of digits is always one token).         *)
(***************************************************************************)
EXTENDS Integers, Sequences, FiniteSets, TLC

VARIABLES
    pc,              \* position of the single thread of control
    url,             \* the URL passed to ingest / extract, a token sequence
    ingestor,        \* class of the ingestor instance, "none" before construction
    opp_id,          \* GrantsGovIngestor.extract: local opp_id
    driver,          \* render_with_selenium: "none", "open" or "quit"
    launched,        \* browser sessions acquired so far (webdriver.Chrome returned)
    quits,           \* driver.quit() calls so far
    flat_waits,      \* time.sleep(wait_seconds) calls in render_with_selenium
    pending,         \* render_with_selenium: what the try block leaves for after finally
    render_out,      \* what render_with_selenium gave its caller
    attempt,         \* fetch_with_retry: loop variable
    last_exception,  \* fetch_with_retry: last_exception
    fetch_log,       \* fetch_with_retry: the GETs and sleeps done, in order
    sel_err,         \* extract: the exception its except clause caught, if any
    html,            \* where the HTML being parsed came from
    result,          \* what the entry point gave its caller
    labels,          \* _find_field / _find_nsf_field: argument labels
    soup,            \* _find_field / _find_nsf_field: argument soup
    field,           \* _find_field / _find_nsf_field: the value returned
    value,           \* normalize_date: argument value
    normalized,      \* normalize_date: what the validator gave the model
    record,          \* _parse_html / NSFIngestor.extract: the FundingOpportunity built from soup
    tag_title,       \* apply_tags: argument title, as words
    tag_description, \* apply_tags: argument description, as words
    use_nlp,         \* apply_tags: argument use_nlp
    sklearn,         \* whether scikit-learn can be imported
    similarities,    \* tag_by_tfidf: similarities, in hundredths, by category index
    keyword_tags,    \* apply_tags: keyword_tags
    nlp_tags,        \* apply_tags: nlp_tags
    all_tags         \* apply_tags: all_tags

dateVars == <<value, normalized>>

recordVars == <<record>>

tagVars == <<tag_title, tag_description, use_nlp, sklearn, similarities, keyword_tags, nlp_tags, all_tags>>

vars == <<pc, url, ingestor, opp_id, driver, launched, quits, flat_waits,
          pending, render_out, sel_err, attempt, last_exception, fetch_log, html,
          result, labels, soup, field, dateVars, recordVars, tagVars>>

\* the variables of source selection, extract, rendering and retrieval
pipelineVars == <<url, ingestor, opp_id, driver, launched, quits, flat_waits,
                  pending, render_out, sel_err, attempt, last_exception, fetch_log,
                  html, result>>

\* the variables of label-based field resolution
fieldVars == <<labels, soup, field>>

---------------------------------------------------------------------------
(* Bounds of the model *)

\* longest hostname, in tokens
MaxHostLen == 4

\* longest part of a URL after the hostname, in tokens
MaxRestLen == 5

\* most elements of a document
MaxNodes == 3

---------------------------------------------------------------------------
(* Program constants *)

MAX_RETRIES == 3

\* BACKOFF_FACTOR = 1.5 = BACKOFF_NUM / BACKOFF_DEN
BACKOFF_NUM == 3

BACKOFF_DEN == 2

\* \d{7,} of _extract_award_id
MinAwardDigits == 7

---------------------------------------------------------------------------
(* Sequences *)

SeqsUpTo(S, n) == UNION {[1..k -> S] : k \in 0..n}

\* Python: p in h
Contains(p, h) ==
    \E i \in 0..(Len(h) - Len(p)) : SubSeq(h, i + 1, i + Len(p)) = p

Min(S) == CHOOSE x \in S : \A y \in S : x <= y

Max(S) == CHOOSE x \in S : \A y \in S : x >= y

RECURSIVE Pow(_, _)
Pow(b, e) == IF e = 0 THEN 1 ELSE b * Pow(b, e - 1)

---------------------------------------------------------------------------
(* URLs *)

SchemePrefix == <<"https:", "/", "/">>

HostTokens == {"www.", "grants", ".gov", "nsf"}

Hosts == SeqsUpTo(HostTokens, MaxHostLen)

DigitTokens == {"12", "1234567"}

NumDigits(t) == IF t = "12" THEN 2 ELSE IF t = "1234567" THEN 7 ELSE 0

RestTokens == {"/", "?", "#", "oppId=", "AWD_ID=", "view"} \cup DigitTokens

Delims == {"/", "?", "#"}

\* the part of a URL after the hostname: empty or starting a path, a query or a
\* fragment, with every maximal run of digits one token
Rests ==
    {r \in SeqsUpTo(RestTokens, MaxRestLen) :
        /\ (r # <<>> => r[1] \in Delims)
        /\ \A i \in 1..(Len(r) - 1) : ~(r[i] \in DigitTokens /\ r[i + 1] \in DigitTokens)}

MakeUrl(host, rest) == SchemePrefix \o host \o rest

\* the URLs the whole-program behaviours start from
SampleRests ==
    { <<"/", "view">>,
      <<"/", "view", "/", "1234567">>,
      <<"/", "view", "?", "oppId=", "12">>,
      <<"/", "12", "?", "AWD_ID=", "1234567">> }

\* first index >= i of u holding a token of S, Len(u) + 1 when there is none
RECURSIVE IndexOf(_, _, _)
IndexOf(u, S, i) ==
    IF i > Len(u) THEN Len(u) + 1
    ELSE IF u[i] \in S THEN i
    ELSE IndexOf(u, S, i + 1)

\* urlparse(url).hostname or ""
Hostname(u) ==
    LET start == Len(SchemePrefix) + 1
    IN  SubSeq(u, start, IndexOf(u, Delims, start) - 1)

\* the path, the query and the fragment of a URL (RFC 3986), as urlparse splits it
UrlFragmentStart(u) == IndexOf(u, {"#"}, Len(SchemePrefix) + 1)

UrlPathStart(u) == IndexOf(u, Delims, Len(SchemePrefix) + 1)

UrlPathEnd(u) == IndexOf(u, {"?", "#"}, Len(SchemePrefix) + 1) - 1

UrlPath(u) == SubSeq(u, UrlPathStart(u), UrlPathEnd(u))

UrlQuery(u) ==
    LET q == IndexOf(u, {"?"}, Len(SchemePrefix) + 1)
    IN  IF q < UrlFragmentStart(u) THEN SubSeq(u, q + 1, UrlFragmentStart(u) - 1)
        ELSE <<>>

---------------------------------------------------------------------------
(* IngestorFactory *)

\* IngestorFactory._registry after the two register calls, in insertion order
Registry ==
    << [pattern |-> <<"grants", ".gov">>, cls |-> "GrantsGovIngestor"],
       [pattern |-> <<"nsf", ".gov">>,    cls |-> "NSFIngestor"] >>

RegistryKeys == [i \in 1..Len(Registry) |-> Registry[i].pattern]

\* pattern in hostname
PatternMatches(pattern, hostname) == Contains(pattern, hostname)

\* the loop of get_ingestor: index of the entry returned, 0 when the loop ends
RECURSIVE get_ingestor_from(_, _)
get_ingestor_from(hostname, i) ==
    IF i > Len(Registry) THEN 0
    ELSE IF PatternMatches(Registry[i].pattern, hostname) THEN i
    ELSE get_ingestor_from(hostname, i + 1)

\* a plausible bug: the last matching entry wins
get_ingestor_Last(u) ==
    LET m == {i \in 1..Len(Registry) : Contains(Registry[i].pattern, Hostname(u))}
    IN  IF m = {} THEN 0 ELSE Max(m)

get_ingestor(u) == get_ingestor_from(Hostname(u), 1)

---------------------------------------------------------------------------
(* Identifier resolution *)

NoId == [found |-> FALSE, id |-> <<>>]

FoundId(id) == [found |-> TRUE, id |-> id]

\* re.search(r"/(\d+)(?:\?|$|#)", url): the places where it matches
PathIdMatches(u) ==
    {i \in 1..(Len(u) - 1) :
        /\ u[i] = "/"
        /\ u[i + 1] \in DigitTokens
        /\ (i + 1 = Len(u) \/ u[i + 2] \in {"?", "#"})}

\* re.search(r"oppId=(\d+)", url): the places where it matches
OppIdMatches(u) ==
    {i \in 1..(Len(u) - 1) : u[i] = "oppId=" /\ u[i + 1] \in DigitTokens}

\* url.rstrip("/")
RECURSIVE RStripSlash(_)
RStripSlash(u) ==
    IF u # <<>> /\ u[Len(u)] = "/" THEN RStripSlash(SubSeq(u, 1, Len(u) - 1)) ELSE u

\* the indices of the parts of url.rstrip("/").split("/") for which part.isdigit()
DigitParts(u) ==
    LET s == RStripSlash(u)
    IN  {i \in 1..Len(s) :
            /\ s[i] \in DigitTokens
            /\ (i = 1 \/ s[i - 1] = "/")
            /\ (i = Len(s) \/ s[i + 1] = "/")}

\* a plausible bug: an empty identifier is returned where none is found, as variant B does
extract_opportunity_id_Tolerant(u) ==
    IF PathIdMatches(u) # {} THEN FoundId(<<u[Min(PathIdMatches(u)) + 1]>>)
    ELSE IF OppIdMatches(u) # {} THEN FoundId(<<u[Min(OppIdMatches(u)) + 1]>>)
    ELSE IF DigitParts(u) # {} THEN FoundId(<<RStripSlash(u)[Max(DigitParts(u))]>>)
    ELSE FoundId(<<>>)

\* GrantsGovIngestor._extract_opportunity_id; NoId stands for raise ValueError
extract_opportunity_id(u) ==
    IF PathIdMatches(u) # {} THEN FoundId(<<u[Min(PathIdMatches(u)) + 1]>>)
    ELSE IF OppIdMatches(u) # {} THEN FoundId(<<u[Min(OppIdMatches(u)) + 1]>>)
    ELSE IF DigitParts(u) # {} THEN FoundId(<<RStripSlash(u)[Max(DigitParts(u))]>>)
    ELSE NoId

\* re.search(r"AWD_ID=(\d+)", url, re.I): the places where it matches
AwdIdMatches(u) ==
    {i \in 1..(Len(u) - 1) : u[i] \in {"AWD_ID=", "awd_id="} /\ u[i + 1] \in DigitTokens}

\* re.search(r"/(\d{7,})(?:\?|$|#)", url): the places where it matches
AwardPathMatches(u) ==
    {i \in PathIdMatches(u) : NumDigits(u[i + 1]) >= MinAwardDigits}

\* a plausible bug: the path segment is tried before the query parameter
extract_award_id_PathFirst(u) ==
    IF AwardPathMatches(u) # {} THEN <<"NSF-", u[Min(AwardPathMatches(u)) + 1]>>
    ELSE IF AwdIdMatches(u) # {} THEN <<"NSF-", u[Min(AwdIdMatches(u)) + 1]>>
    ELSE <<>>

\* NSFIngestor._extract_award_id; <<>> is the empty string
extract_award_id(u) ==
    IF AwdIdMatches(u) # {} THEN <<"NSF-", u[Min(AwdIdMatches(u)) + 1]>>
    ELSE IF AwardPathMatches(u) # {} THEN <<"NSF-", u[Min(AwardPathMatches(u)) + 1]>>
    ELSE <<>>

\* award_id or "NSF-UNKNOWN"
nsf_foa_id(u) == IF extract_award_id(u) # <<>> THEN extract_award_id(u) ELSE <<"NSF-UNKNOWN">>

---------------------------------------------------------------------------
(* What a call gives its caller *)

\* None, as the value of an Optional[str]
Null == [null |-> TRUE, text |-> <<>>]

\* a str
Str(t) == [null |-> FALSE, text |-> t]

NoResult ==
    [kind |-> "none", exc |-> "none", what |-> "none", attempts |-> 0,
     cause |-> "none", domains |-> <<>>, foa_id |-> <<>>, html |-> "none"]

\* raise exc(...); what names the failure
Raise(exc, what) == [NoResult EXCEPT !.kind = "raised", !.exc = exc, !.what = what]

\* return FundingOpportunity(foa_id=..., ...), parsed from HTML obtained by src
Record(foa_id, src) == [NoResult EXCEPT !.kind = "record", !.foa_id = foa_id, !.html = src]

NoRender == [kind |-> "none", exc |-> "none"]

RenderHtml == [kind |-> "html", exc |-> "none"]

RenderRaised(exc) == [kind |-> "raised", exc |-> exc]

\* subclasses of requests.RequestException that requests.get / raise_for_status raise
RequestExceptions == {"Timeout", "HTTPError"}

\* an exception of requests.get that is no RequestException
OtherExceptions == {"Exception"}

GetOutcomes == {"ok"} \cup RequestExceptions \cup OtherExceptions

GetEvent(a, o) == [ev |-> "get", attempt |-> a, outcome |-> o, wait |-> <<0, 1>>]

SleepEvent(a, w) == [ev |-> "sleep", attempt |-> a, outcome |-> "none", wait |-> w]

\* the value of the field "Funding Opportunity Number" in the parsed document, if any
OppNumbers == {<<>>, <<"FOA-1">>}

---------------------------------------------------------------------------
(* ingest and IngestorFactory.get_ingestor *)

Ingest ==
    /\ pc = "ingest"
    /\ LET i == get_ingestor(url)
       IN  IF i # 0
           THEN /\ ingestor' = Registry[i].cls
                /\ pc' = "extract"
                /\ UNCHANGED result
           ELSE /\ result' = [Raise("ValueError", "UnsupportedSource")
                                 EXCEPT !.domains = RegistryKeys]
                /\ pc' = "done"
                /\ UNCHANGED ingestor
    /\ UNCHANGED <<dateVars, recordVars, tagVars, url, opp_id, driver, launched, quits, flat_waits, pending,
                   render_out, attempt, last_exception, fetch_log, html, labels, soup,
                   field, sel_err>>

---------------------------------------------------------------------------
(* extract, up to the call of render_with_selenium *)

ExtractGrants ==
    /\ pc = "extract"
    /\ ingestor = "GrantsGovIngestor"
    /\ LET r == extract_opportunity_id(url)
       IN  IF r.found
           THEN /\ opp_id' = r.id
                /\ pc' = "render_import"
                /\ UNCHANGED result
           ELSE /\ result' = Raise("ValueError", "IdentifierNotFound")
                /\ pc' = "done"
                /\ UNCHANGED opp_id
    /\ UNCHANGED <<dateVars, recordVars, tagVars, url, ingestor, driver, launched, quits, flat_waits, pending,
                   render_out, attempt, last_exception, fetch_log, html, labels, soup,
                   field, sel_err>>

ExtractNSF ==
    /\ pc = "extract"
    /\ ingestor = "NSFIngestor"
    /\ pc' = "render_import"
    /\ UNCHANGED <<dateVars, recordVars, tagVars, url, ingestor, opp_id, driver, launched, quits, flat_waits, pending,
                   render_out, attempt, last_exception, fetch_log, html, result,
                   labels, soup,
                   field, sel_err>>

---------------------------------------------------------------------------
(* render_with_selenium *)

\* the imports: an ImportError becomes a RuntimeError
RenderImport ==
    /\ pc = "render_import"
    /\ \/ /\ pc' = "render_launch"
          /\ UNCHANGED render_out
       \/ /\ render_out' = RenderRaised("RuntimeError")
          /\ pc' = "after_render"
    /\ UNCHANGED <<dateVars, recordVars, tagVars, url, ingestor, opp_id, driver, launched, quits, flat_waits, pending,
                   attempt, last_exception, fetch_log, html, result, labels, soup,
                   field, sel_err>>

\* driver = webdriver.Chrome(...): a session is acquired only when it returns
RenderLaunch ==
    /\ pc = "render_launch"
    /\ \/ /\ driver' = "open"
          /\ launched' = launched + 1
          /\ pc' = "render_get"
          /\ UNCHANGED render_out
       \/ /\ render_out' = RenderRaised("WebDriverException")
          /\ pc' = "after_render"
          /\ UNCHANGED <<driver, launched>>
    /\ UNCHANGED <<dateVars, recordVars, tagVars, url, ingestor, opp_id, quits, flat_waits, pending,
                   attempt, last_exception, fetch_log, html, result, labels, soup,
                   field, sel_err>>

\* driver.get(url)
RenderGet ==
    /\ pc = "render_get"
    /\ \/ /\ pc' = "render_wait"
          /\ UNCHANGED pending
       \/ /\ pending' = RenderRaised("WebDriverException")
          /\ pc' = "render_finally"
    /\ UNCHANGED <<dateVars, recordVars, tagVars, url, ingestor, opp_id, driver, launched, quits, flat_waits,
                   render_out, attempt, last_exception, fetch_log, html, result,
                   labels, soup,
                   field, sel_err>>

\* WebDriverWait(...).until(...): the marker appears, or the wait raises
RenderWait ==
    /\ pc = "render_wait"
    /\ \/ pc' = "render_source"
       \/ pc' = "render_flat_wait"
    /\ UNCHANGED <<dateVars, recordVars, tagVars, url, ingestor, opp_id, driver, launched, quits, flat_waits, pending,
                   render_out, attempt, last_exception, fetch_log, html, result,
                   labels, soup,
                   field, sel_err>>

\* except Exception: time.sleep(wait_seconds)
RenderFlatWait ==
    /\ pc = "render_flat_wait"
    /\ flat_waits' = flat_waits + 1
    /\ pc' = "render_source"
    /\ UNCHANGED <<dateVars, recordVars, tagVars, url, ingestor, opp_id, driver, launched, quits, pending,
                   render_out, attempt, last_exception, fetch_log, html, result,
                   labels, soup,
                   field, sel_err>>

\* html = driver.page_source; return html
RenderSource ==
    /\ pc = "render_source"
    /\ \/ pending' = RenderHtml
       \/ pending' = RenderRaised("WebDriverException")
    /\ pc' = "render_finally"
    /\ UNCHANGED <<dateVars, recordVars, tagVars, url, ingestor, opp_id, driver, launched, quits, flat_waits,
                   render_out, attempt, last_exception, fetch_log, html, result,
                   labels, soup,
                   field, sel_err>>

\* a plausible bug: driver.quit() after the try block, not in a finally clause
RunsQuit_NoFinally(p) == p.kind = "html"

\* finally: driver.quit() runs whatever the try block left
RunsQuit(p) == TRUE

RenderFinally ==
    /\ pc = "render_finally"
    /\ IF RunsQuit(pending)
       THEN /\ quits' = quits + 1
            /\ driver' = "quit"
       ELSE UNCHANGED <<quits, driver>>
    /\ render_out' = pending
    /\ pc' = "after_render"
    /\ UNCHANGED <<dateVars, recordVars, tagVars, url, ingestor, opp_id, launched, flat_waits, pending,
                   attempt, last_exception, fetch_log, html, result, labels, soup,
                   field, sel_err>>

---------------------------------------------------------------------------
(* extract, after render_with_selenium *)

\* a plausible bug: only except RuntimeError, no except Exception
GrantsCatches_RuntimeOnly(exc) == exc = "RuntimeError"

\* GrantsGovIngestor.extract: except RuntimeError, except Exception
GrantsCatches(exc) == exc \in {"RuntimeError", "WebDriverException", "Exception"}

\* NSFIngestor.extract: except Exception
NSFCatches(exc) == exc \in {"RuntimeError", "WebDriverException", "Exception"}

GrantsRenderFailed ==
    /\ pc = "after_render"
    /\ ingestor = "GrantsGovIngestor"
    /\ render_out.kind = "raised"
    /\ IF GrantsCatches(render_out.exc)
       THEN /\ sel_err' = render_out.exc
            /\ pc' = "fetch_get"
            /\ UNCHANGED result
       ELSE /\ result' = Raise(render_out.exc, "RenderFailure")
            /\ pc' = "done"
            /\ UNCHANGED sel_err
    /\ UNCHANGED <<dateVars, recordVars, tagVars, url, ingestor, opp_id, driver, launched, quits, flat_waits, pending,
                   render_out, attempt, last_exception, fetch_log, html, labels, soup,
                   field>>

\* return self._parse_html(html, url, opp_id), inside the try block
GrantsParseRendered ==
    /\ pc = "after_render"
    /\ ingestor = "GrantsGovIngestor"
    /\ render_out.kind = "html"
    /\ html' = "rendered"
    /\ \/ \E n \in OppNumbers :
            /\ result' = Record(IF n # <<>> THEN n ELSE opp_id, "rendered")
            /\ pc' = "done"
            /\ UNCHANGED sel_err
       \/ /\ IF GrantsCatches("Exception")
             THEN /\ sel_err' = "Exception"
                  /\ pc' = "fetch_get"
                  /\ UNCHANGED result
             ELSE /\ result' = Raise("Exception", "ParseFailure")
                  /\ pc' = "done"
                  /\ UNCHANGED sel_err
    /\ UNCHANGED <<dateVars, recordVars, tagVars, url, ingestor, opp_id, driver, launched, quits, flat_waits, pending,
                   render_out, attempt, last_exception, fetch_log, labels, soup,
                   field>>

NSFRenderFailed ==
    /\ pc = "after_render"
    /\ ingestor = "NSFIngestor"
    /\ render_out.kind = "raised"
    /\ IF NSFCatches(render_out.exc)
       THEN /\ sel_err' = render_out.exc
            /\ pc' = "fetch_get"
            /\ UNCHANGED result
       ELSE /\ result' = Raise(render_out.exc, "RenderFailure")
            /\ pc' = "done"
            /\ UNCHANGED sel_err
    /\ UNCHANGED <<dateVars, recordVars, tagVars, url, ingestor, opp_id, driver, launched, quits, flat_waits, pending,
                   render_out, attempt, last_exception, fetch_log, html, labels, soup,
                   field>>

\* html is not None: no fetch
NSFRenderOk ==
    /\ pc = "after_render"
    /\ ingestor = "NSFIngestor"
    /\ render_out.kind = "html"
    /\ html' = "rendered"
    /\ pc' = "nsf_build"
    /\ UNCHANGED <<dateVars, recordVars, tagVars, url, ingestor, opp_id, driver, launched, quits, flat_waits, pending,
                   render_out, attempt, last_exception, fetch_log, result, labels, soup,
                   field, sel_err>>

---------------------------------------------------------------------------
(* fetch_with_retry *)

\* wait_time = BACKOFF_FACTOR ** attempt, as <<numerator, denominator>>
wait_time(a) == <<Pow(BACKOFF_NUM, a), Pow(BACKOFF_DEN, a)>>

\* a plausible bug: the sleep is not guarded
SleepsAfter_Always(a) == TRUE

\* if attempt < MAX_RETRIES - 1: time.sleep(wait_time)
SleepsAfter(a) == a < MAX_RETRIES - 1

\* a plausible bug: one attempt too few
LoopEnds_Early(a) == a >= MAX_RETRIES - 1

\* a plausible bug: one attempt too many
LoopEnds_Late(a) == a >= MAX_RETRIES + 1

\* for attempt in range(MAX_RETRIES): a is past the range
LoopEnds(a) == a >= MAX_RETRIES

\* a plausible bug: last_exception is set only when it is still None
NextLastException_First(old, exc) == IF old = "none" THEN exc ELSE old

\* last_exception = exc
NextLastException(old, exc) == exc

\* where control goes when the body of the loop is left by falling through
AfterIteration(a) == IF LoopEnds(a + 1) THEN "fetch_raise" ELSE "fetch_get"

\* where the caller of fetch_with_retry continues
AfterFetch == IF ingestor = "GrantsGovIngestor" THEN "grants_parse_static" ELSE "nsf_build"

\* requests.get(...); response.raise_for_status(); return response / except
FetchGet ==
    /\ pc = "fetch_get"
    /\ \E o \in GetOutcomes :
        /\ fetch_log' = Append(fetch_log, GetEvent(attempt, o))
        /\ IF o = "ok"
           THEN /\ html' = "static"
                /\ pc' = AfterFetch
                /\ UNCHANGED <<attempt, last_exception, result>>
           ELSE IF o \in RequestExceptions
           THEN /\ last_exception' = NextLastException(last_exception, o)
                /\ IF SleepsAfter(attempt)
                   THEN /\ pc' = "fetch_sleep"
                        /\ UNCHANGED attempt
                   ELSE /\ pc' = AfterIteration(attempt)
                        /\ attempt' = attempt + 1
                /\ UNCHANGED <<html, result>>
           ELSE /\ result' = Raise(o, "FetchFailure")
                /\ pc' = "done"
                /\ UNCHANGED <<attempt, last_exception, html>>
    /\ UNCHANGED <<dateVars, recordVars, tagVars, url, ingestor, opp_id, driver, launched, quits, flat_waits, pending,
                   render_out, labels, soup,
                   field, sel_err>>

\* time.sleep(wait_time)
FetchSleep ==
    /\ pc = "fetch_sleep"
    /\ fetch_log' = Append(fetch_log, SleepEvent(attempt, wait_time(attempt)))
    /\ pc' = AfterIteration(attempt)
    /\ attempt' = attempt + 1
    /\ UNCHANGED <<dateVars, recordVars, tagVars, url, ingestor, opp_id, driver, launched, quits, flat_waits, pending,
                   render_out, last_exception, html, result, labels, soup,
                   field, sel_err>>

\* raise ConnectionError(f"Failed to fetch {url} after {MAX_RETRIES} attempts:
\* {last_exception}"); neither _extract_via_static_html nor extract catches it
FetchRaise ==
    /\ pc = "fetch_raise"
    /\ result' = [Raise("ConnectionError", "ConnectionFailure")
                     EXCEPT !.attempts = MAX_RETRIES, !.cause = last_exception]
    /\ pc' = "done"
    /\ UNCHANGED <<dateVars, recordVars, tagVars, url, ingestor, opp_id, driver, launched, quits, flat_waits, pending,
                   render_out, attempt, last_exception, fetch_log, html, labels, soup,
                   field, sel_err>>

---------------------------------------------------------------------------
(* extract, after fetch_with_retry *)

\* return self._parse_html(response.text, url, opp_id), outside any try block
GrantsParseStatic ==
    /\ pc = "grants_parse_static"
    /\ \/ \E n \in OppNumbers :
            result' = Record(IF n # <<>> THEN n ELSE opp_id, "static")
       \/ result' = Raise("Exception", "ParseFailure")
    /\ pc' = "done"
    /\ UNCHANGED <<dateVars, recordVars, tagVars, url, ingestor, opp_id, driver, launched, quits, flat_waits, pending,
                   render_out, attempt, last_exception, fetch_log, html, labels, soup,
                   field, sel_err>>

\* soup = BeautifulSoup(html, "lxml") ... return FundingOpportunity(...)
NSFBuild ==
    /\ pc = "nsf_build"
    /\ \/ result' = Record(nsf_foa_id(url), html)
       \/ result' = Raise("Exception", "ParseFailure")
    /\ pc' = "done"
    /\ UNCHANGED <<dateVars, recordVars, tagVars, url, ingestor, opp_id, driver, launched, quits, flat_waits, pending,
                   render_out, attempt, last_exception, fetch_log, html, labels, soup,
                   field, sel_err>>

---------------------------------------------------------------------------
(* The whole program: ingest(url) *)

Init ==
    /\ pc = "ingest"
    /\ url \in {MakeUrl(h, r) : h \in Hosts, r \in SampleRests}
    /\ ingestor = "none"
    /\ opp_id = <<>>
    /\ driver = "none"
    /\ launched = 0
    /\ quits = 0
    /\ flat_waits = 0
    /\ pending = NoRender
    /\ render_out = NoRender
    /\ sel_err = "none"
    /\ attempt = 0
    /\ last_exception = "none"
    /\ fetch_log = <<>>
    /\ html = "none"
    /\ result = NoResult
    /\ tag_title = <<>>
    /\ tag_description = <<>>
    /\ use_nlp = FALSE
    /\ sklearn = FALSE
    /\ similarities = <<>>
    /\ keyword_tags = <<>>
    /\ nlp_tags = <<>>
    /\ all_tags = <<>>
    /\ record = Null
    /\ value = Null
    /\ normalized = Null
    /\ labels = <<>>
    /\ soup = <<>>
    /\ field = Null

Next ==
    \/ Ingest
    \/ ExtractGrants
    \/ ExtractNSF
    \/ RenderImport
    \/ RenderLaunch
    \/ RenderGet
    \/ RenderWait
    \/ RenderFlatWait
    \/ RenderSource
    \/ RenderFinally
    \/ GrantsRenderFailed
    \/ GrantsParseRendered
    \/ NSFRenderFailed
    \/ NSFRenderOk
    \/ FetchGet
    \/ FetchSleep
    \/ FetchRaise
    \/ GrantsParseStatic
    \/ NSFBuild

Spec == Init /\ [][Next]_vars

---------------------------------------------------------------------------
(* Properties of fetch_with_retry *)

\* the GETs issued so far, in order
Gets == SelectSeq(fetch_log, LAMBDA e : e.ev = "get")

Sleeps == SelectSeq(fetch_log, LAMBDA e : e.ev = "sleep")

AllGetsFailed ==
    /\ Len(Gets) = 3
    /\ \A k \in 1..3 : Gets[k].outcome \in RequestExceptions

InFetch == pc \in {"fetch_get", "fetch_sleep", "fetch_raise"}

\* C1: fetch_with_retry issues at most 3 GETs; a successful GET is the last event of
\* the call, which then returns to its caller without raising; when all 3 GETs fail
\* with a RequestException the call raises ConnectionError citing 3 attempts and the
\* exception of the third GET.
C1_RetryBudget ==
    /\ Len(Gets) <= 3
    /\ \A i \in 1..Len(fetch_log) :
          fetch_log[i].outcome = "ok" =>
              /\ i = Len(fetch_log)
              /\ ~InFetch
              /\ html = "static"
              /\ result.exc # "ConnectionError"
    /\ (AllGetsFailed /\ pc = "done") =>
          /\ result.kind = "raised"
          /\ result.exc = "ConnectionError"
          /\ result.attempts = 3
          /\ result.cause = Gets[3].outcome

\* all three GETs failed, the last with another error than the first
C1_Witness ==
    /\ pc = "done"
    /\ AllGetsFailed
    /\ Gets[1].outcome # Gets[3].outcome
    /\ result.exc = "ConnectionError"

FailedGet(e) == e.ev = "get" /\ e.outcome \in RequestExceptions

\* C2: a sleep directly follows a failed GET of attempt index 0 or 1 and lasts
\* 1.5^index seconds (1, then 3/2); the next event is the GET of the next index;
\* a failed GET of index 0 or 1 is followed by a sleep and by nothing else; nothing
\* follows the third GET or a successful GET; a call sleeps at most twice.
C2_SleepBetweenAttempts ==
    /\ Len(Sleeps) <= 2
    /\ \A i \in 1..Len(fetch_log) :
          LET e == fetch_log[i]
          IN  /\ e.ev = "sleep" =>
                    /\ i > 1
                    /\ FailedGet(fetch_log[i - 1])
                    /\ fetch_log[i - 1].attempt = e.attempt
                    /\ e.attempt \in {0, 1}
                    /\ e.wait = (IF e.attempt = 0 THEN <<1, 1>> ELSE <<3, 2>>)
                    /\ i < Len(fetch_log) =>
                          /\ fetch_log[i + 1].ev = "get"
                          /\ fetch_log[i + 1].attempt = e.attempt + 1
              /\ (FailedGet(e) /\ e.attempt \in {0, 1}) =>
                    IF i < Len(fetch_log)
                    THEN fetch_log[i + 1].ev = "sleep"
                    ELSE pc = "fetch_sleep"
              /\ (e.ev = "get" /\ (e.attempt = 2 \/ e.outcome = "ok")) =>
                    /\ i = Len(fetch_log)
                    /\ pc # "fetch_sleep"

\* three failed GETs with two sleeps between them, and the call is over
C2_Witness ==
    /\ pc = "done"
    /\ AllGetsFailed
    /\ Len(Sleeps) = 2
    /\ fetch_log[Len(fetch_log)].ev = "get"

---------------------------------------------------------------------------
(* Properties of render_with_selenium *)

InRender ==
    pc \in {"render_import", "render_launch", "render_get", "render_wait",
            "render_flat_wait", "render_source", "render_finally"}

\* C3: once control is back with the caller of render_with_selenium, every session
\* that was acquired has been terminated exactly once, and none is terminated before
\* the finally clause.
C3_SessionReleased ==
    /\ quits <= launched
    /\ (pc \in {"extract", "ingest"} \/ (InRender /\ pc # "render_finally")) => quits = 0
    /\ ~(InRender \/ pc \in {"extract", "ingest"}) =>
          /\ quits = launched
          /\ driver # "open"

\* the marker wait timed out, the flat wait ran, reading the page source raised
C3_Witness ==
    /\ pc = "after_render"
    /\ launched = 1
    /\ flat_waits = 1
    /\ render_out.kind = "raised"
    /\ quits = 1

---------------------------------------------------------------------------
(* Properties of extract *)

RenderExceptions == {"RuntimeError", "WebDriverException"}

RenderAttempted == InRender \/ render_out.kind # "none"

\* C4: a GET is issued only after rendering was attempted; once rendering has failed
\* and extract has handled it, fetch_with_retry is running or has issued a GET; and
\* what extract raises is never a rendering error.
C4_RenderFailureAbsorbed ==
    /\ (fetch_log # <<>> \/ InFetch) => (RenderAttempted /\ ~InRender)
    /\ (render_out.kind = "raised" /\ pc # "after_render") =>
          /\ sel_err = render_out.exc
          /\ (pc = "fetch_get" \/ Len(Gets) >= 1)
    /\ result.what # "RenderFailure"
    /\ result.kind = "raised" => result.exc \notin RenderExceptions

\* GrantsGovIngestor: rendering raised an exception that is no RuntimeError, and the
\* record comes from the plain retrieval
C4_Witness ==
    /\ pc = "done"
    /\ ingestor = "GrantsGovIngestor"
    /\ render_out = RenderRaised("WebDriverException")
    /\ result.kind = "record"
    /\ result.html = "static"

\* C5: extract raises ConnectionError only when its rendering path has failed and
\* all 3 GETs of the fallback have failed; the error is the one fetch_with_retry
\* raised, and no record is returned; and when the rendering path and all 3 GETs
\* have failed, that error is what extract raises.
C5_ConnectionFailureLast ==
    /\ result.exc = "ConnectionError" =>
          /\ sel_err # "none"
          /\ AllGetsFailed
          /\ result.kind = "raised"
          /\ result.what = "ConnectionFailure"
          /\ result.attempts = MAX_RETRIES
          /\ result.cause = last_exception
          /\ result.foa_id = <<>>
    /\ (pc = "done" /\ AllGetsFailed) =>
          /\ sel_err # "none"
          /\ result.exc = "ConnectionError"

\* GrantsGovIngestor: the page was rendered, parsing it raised, and the three GETs
\* of the fallback failed
C5_Witness ==
    /\ pc = "done"
    /\ ingestor = "GrantsGovIngestor"
    /\ render_out.kind = "html"
    /\ sel_err = "Exception"
    /\ AllGetsFailed
    /\ result.exc = "ConnectionError"

---------------------------------------------------------------------------
(* Properties of source selection *)

\* the registry entries whose key is a substring of the URL's hostname
MatchingEntries == {i \in 1..Len(Registry) : Contains(Registry[i].pattern, Hostname(url))}

\* C6: the ingestor constructed is that of the first registry entry whose key is a
\* substring of the hostname; when no key is, ingest raises ValueError naming every
\* registered key, constructs no ingestor, launches no browser and issues no GET.
C6_SourceSelection ==
    /\ ingestor # "none" =>
          /\ MatchingEntries # {}
          /\ ingestor = Registry[Min(MatchingEntries)].cls
    /\ (pc # "ingest" /\ MatchingEntries # {}) => ingestor # "none"
    /\ (pc # "ingest" /\ MatchingEntries = {}) =>
          /\ pc = "done"
          /\ result.kind = "raised"
          /\ result.exc = "ValueError"
          /\ result.what = "UnsupportedSource"
          /\ result.domains = << <<"grants", ".gov">>, <<"nsf", ".gov">> >>
          /\ ingestor = "none"
          /\ ~RenderAttempted
          /\ launched = 0
          /\ fetch_log = <<>>

\* both keys are substrings of the hostname, the second entry's key coming first
C6_Witness ==
    /\ pc = "done"
    /\ Hostname(url) = <<"nsf", ".gov", "grants", ".gov">>
    /\ ingestor = "GrantsGovIngestor"
    /\ result.kind = "record"

---------------------------------------------------------------------------
(* Identifier resolution applied to every URL of up to MaxRestLen tokens after *)
(* the hostname                                                                *)

\* award_id = self._extract_award_id(url); foa_id = award_id or "NSF-UNKNOWN"
CallExtractAwardId ==
    /\ pc = "extract"
    /\ ingestor = "NSFIngestor"
    /\ opp_id' = extract_award_id(url)
    /\ result' = Record(nsf_foa_id(url), "none")
    /\ pc' = "done"
    /\ UNCHANGED <<dateVars, recordVars, tagVars, url, ingestor, driver, launched, quits, flat_waits, pending,
                   render_out, sel_err, attempt, last_exception, fetch_log, html,
                   labels, soup,
                   field>>

InitId ==
    /\ pc = "extract"
    /\ \E r \in Rests :
          \/ /\ ingestor = "GrantsGovIngestor"
             /\ url = MakeUrl(<<"www.", "grants", ".gov">>, r)
          \/ /\ ingestor = "NSFIngestor"
             /\ url = MakeUrl(<<"www.", "nsf", ".gov">>, r)
    /\ opp_id = <<>>
    /\ driver = "none"
    /\ launched = 0
    /\ quits = 0
    /\ flat_waits = 0
    /\ pending = NoRender
    /\ render_out = NoRender
    /\ sel_err = "none"
    /\ attempt = 0
    /\ last_exception = "none"
    /\ fetch_log = <<>>
    /\ html = "none"
    /\ result = NoResult
    /\ tag_title = <<>>
    /\ tag_description = <<>>
    /\ use_nlp = FALSE
    /\ sklearn = FALSE
    /\ similarities = <<>>
    /\ keyword_tags = <<>>
    /\ nlp_tags = <<>>
    /\ all_tags = <<>>
    /\ record = Null
    /\ value = Null
    /\ normalized = Null
    /\ labels = <<>>
    /\ soup = <<>>
    /\ field = Null

\* GrantsGovIngestor.extract up to its call of render_with_selenium, and
\* NSFIngestor's resolution of the identifier
NextId ==
    \/ ExtractGrants
    \/ CallExtractAwardId

SpecId == InitId /\ [][NextId]_vars

\* the segments of urlparse(url).path that consist of digits only
NumericPathSegments(u) ==
    {i \in UrlPathStart(u)..UrlPathEnd(u) :
        /\ u[i] \in DigitTokens
        /\ u[i - 1] = "/"
        /\ (i = UrlPathEnd(u) \/ u[i + 1] = "/")}

\* the value of the query parameter named by key, <<>> when the query is not
\* that parameter
QueryParam(u, key) ==
    LET q == UrlQuery(u)
    IN  IF Len(q) >= 1 /\ q[1] = key THEN SubSeq(q, 2, Len(q)) ELSE <<>>

HasQueryParam(u, key) == UrlQuery(u) # <<>> /\ UrlQuery(u)[1] = key

\* C7, as claimed: GrantsGovIngestor.extract on a URL with no numeric path segment
\* and no oppId query parameter raises ValueError (IdentifierNotFound) before any
\* browser session or GET; NSFIngestor on a URL with no numeric path segment and no
\* AWD_ID query parameter gives the placeholder identifier.
C7_Claim ==
    /\ ( /\ ingestor = "GrantsGovIngestor"
         /\ pc # "extract"
         /\ NumericPathSegments(url) = {}
         /\ ~HasQueryParam(url, "oppId=") ) =>
            /\ result.kind = "raised"
            /\ result.what = "IdentifierNotFound"
            /\ launched = 0
            /\ fetch_log = <<>>
    /\ ( /\ ingestor = "NSFIngestor"
         /\ pc = "done"
         /\ NumericPathSegments(url) = {}
         /\ ~HasQueryParam(url, "AWD_ID=") ) =>
            /\ result.kind = "record"
            /\ result.foa_id = <<"NSF-UNKNOWN">>

\* the runs of digits of the URL that follow "/" and are followed by "/", "?", "#"
\* or the end of the URL
SlashNumbers(u) ==
    {i \in 2..Len(u) :
        /\ u[i] \in DigitTokens
        /\ u[i - 1] = "/"
        /\ (i = Len(u) \/ u[i + 1] \in {"/", "?", "#"})}

\* the places of the URL where key is followed by digits
KeyNumbers(u, keys) == {i \in 1..(Len(u) - 1) : u[i] \in keys /\ u[i + 1] \in DigitTokens}

\* C7, amended: GrantsGovIngestor.extract raises ValueError (IdentifierNotFound),
\* before any browser session or GET, on a URL in which no run of digits stands
\* between "/" and "/", "?", "#" or the end, and in which "oppId=" is nowhere followed
\* by a digit; NSFIngestor gives the placeholder identifier NSF-UNKNOWN, and does not
\* raise, on a URL in which "AWD_ID=" (in any case) is nowhere followed by a digit and
\* no run of at least 7 digits stands between "/" and "?", "#" or the end.
C7_IdentifierNotFound ==
    /\ ( /\ ingestor = "GrantsGovIngestor"
         /\ pc # "extract"
         /\ SlashNumbers(url) = {}
         /\ KeyNumbers(url, {"oppId="}) = {} ) =>
            /\ pc = "done"
            /\ result.kind = "raised"
            /\ result.exc = "ValueError"
            /\ result.what = "IdentifierNotFound"
            /\ launched = 0
            /\ render_out = NoRender
            /\ fetch_log = <<>>
    /\ ( /\ ingestor = "NSFIngestor"
         /\ pc = "done"
         /\ KeyNumbers(url, {"AWD_ID=", "awd_id="}) = {}
         /\ {i \in SlashNumbers(url) :
                /\ NumDigits(url[i]) >= 7
                /\ (i = Len(url) \/ url[i + 1] \in {"?", "#"})} = {} ) =>
            /\ result.kind = "record"
            /\ result.foa_id = <<"NSF-UNKNOWN">>

\* GrantsGovIngestor: a URL with a path, a query and a fragment but no identifier
C7_Witness ==
    /\ pc = "done"
    /\ ingestor = "GrantsGovIngestor"
    /\ UrlPath(url) = <<"/", "view">>
    /\ UrlQuery(url) # <<>>
    /\ result.what = "IdentifierNotFound"

\* the last segment of the path when it consists of digits only, else "none"
FinalPathNumber(u) ==
    IF UrlPathEnd(u) \in NumericPathSegments(u) THEN u[UrlPathEnd(u)] ELSE "none"

\* the number of the query parameter named by key, else "none"
QueryNumber(u, key) ==
    IF Len(QueryParam(u, key)) >= 1 /\ QueryParam(u, key)[1] \in DigitTokens
    THEN QueryParam(u, key)[1]
    ELSE "none"

\* the URL carries a final numeric path segment and the identifier query parameter,
\* with different numbers
CarriesBoth(u, key) ==
    /\ FinalPathNumber(u) # "none"
    /\ QueryNumber(u, key) # "none"
    /\ FinalPathNumber(u) # QueryNumber(u, key)

---------------------------------------------------------------------------
(* Text and documents *)

\* str.lower() of one token
Lower(t) ==
    CASE t = "Close"    -> "close"
      [] t = "Closing"  -> "closing"
      [] t = "Date"     -> "date"
      [] t = "Original" -> "original"
      [] t = "Jan"      -> "jan"
      [] t = "View"     -> "view"
      [] t = "Grant"    -> "grant"
      [] t = "Search"   -> "search"
      [] t = "Results"  -> "results"
      [] t = "Grants.gov" -> "grants.gov"
      [] t = "Synopsis" -> "synopsis"
      [] OTHER          -> t

LowerSeq(x) == [i \in 1..Len(x) |-> Lower(x[i])]

\* the tokens \s matches
Whitespace == {" "}

\* re.sub(r"\s+", " ", text)
RECURSIVE CollapseWhitespace(_)
CollapseWhitespace(x) ==
    IF Len(x) <= 1 THEN x
    ELSE IF x[1] \in Whitespace /\ x[2] \in Whitespace
    THEN CollapseWhitespace(Tail(x))
    ELSE <<x[1]>> \o CollapseWhitespace(Tail(x))

\* str.strip()
RECURSIVE Strip(_)
Strip(x) ==
    IF x = <<>> THEN x
    ELSE IF x[1] \in Whitespace THEN Strip(Tail(x))
    ELSE IF x[Len(x)] \in Whitespace THEN Strip(SubSeq(x, 1, Len(x) - 1))
    ELSE x

\* BaseIngestor.clean_text
clean_text(x) == IF x = <<>> THEN <<>> ELSE Strip(CollapseWhitespace(x))

\* re.compile(re.escape(label), re.I).search(x)
MatchesLabel(label, x) == Contains(LowerSeq(label), LowerSeq(x))

\* x matches \s*:?\s*$ from its start
IsLabelTail(x) ==
    \E c \in 0..Len(x) :
        /\ \A i \in 1..c : x[i] \in Whitespace
        /\ \/ c = Len(x)
           \/ /\ x[c + 1] = ":"
              /\ \A i \in (c + 2)..Len(x) : x[i] \in Whitespace

\* re.compile(re.escape(label) + r"\s*:?\s*$", re.I).search(x)
MatchesLabelRe(label, x) ==
    \E k \in 0..(Len(x) - Len(label)) :
        /\ SubSeq(LowerSeq(x), k + 1, k + Len(label)) = LowerSeq(label)
        /\ IsLabelTail(SubSeq(x, k + Len(label) + 1, Len(x)))

\* an element without children: its tag, its text (.string), for a meta tag its
\* name and content attributes, and for a div its id attribute (held in name); a
\* "tr" element opens a table row, which the elements up to the next "tr" belong to
Node(tag, string, name, content) ==
    [tag |-> tag, string |-> string, name |-> name, content |-> content]

L_CloseDate == <<"Close", " ", "Date">>

L_ClosingDate == <<"Closing", " ", "Date">>

LabelLists == { <<L_CloseDate, L_ClosingDate>>, <<L_ClosingDate, L_CloseDate>> }

T_CloseDate == <<"close", " ", "date">>

T_ClosingDateColon == <<"Closing", " ", "Date", ":">>

T_OriginalClosingDate == <<"Original", " ", "Closing", " ", "Date">>

T_Jan1 == <<"Jan", " ", "1">>

T_Blank == <<" ">>

DocTexts == {T_CloseDate, T_ClosingDateColon, T_OriginalClosingDate, T_Jan1, T_Blank}

DocNodes ==
    {Node("tr", <<>>, <<>>, <<>>)}
    \cup {Node(t, x, <<>>, <<>>) : t \in {"th", "td", "span"}, x \in DocTexts}
    \cup {Node("meta", <<>>, T_CloseDate, c) : c \in {<<>>, T_Jan1, T_Blank}}

Docs == SeqsUpTo(DocNodes, MaxNodes)

---------------------------------------------------------------------------
(* Label-based field resolution *)

GrantsLabelTags == {"th", "dt", "label", "strong", "b", "span"}

NSFLabelTags == {"th", "dt", "label", "strong", "b", "span", "div"}

ValueTags == {"td", "dd", "span", "div", "p"}

\* soup.find(tags, string=re.compile(re.escape(label), re.I)), then
\* find_next(ValueTags), then the test of the cleaned text
PatternA(tags, label, doc) ==
    LET found == {i \in 1..Len(doc) : doc[i].tag \in tags /\ MatchesLabel(label, doc[i].string)}
    IN  IF found = {} THEN Null
        ELSE LET th == Min(found)
                 next == {j \in (th + 1)..Len(doc) : doc[j].tag \in ValueTags}
             IN  IF next = {} THEN Null
                 ELSE LET text == clean_text(doc[Min(next)].string)
                      IN  IF text # <<>> /\ LowerSeq(text) # LowerSeq(label)
                          THEN Str(text)
                          ELSE Null

\* soup.find_all("td", string=label_re)
LabelCells(label, doc) ==
    {i \in 1..Len(doc) : doc[i].tag = "td" /\ MatchesLabelRe(label, doc[i].string)}

\* td.find_next_sibling("td"): 0 stands for None
NextSiblingTd(doc, i) ==
    LET later == {j \in (i + 1)..Len(doc) :
                     /\ doc[j].tag = "td"
                     /\ \A k \in (i + 1)..j : doc[k].tag # "tr"}
    IN  IF later = {} THEN 0 ELSE Min(later)

\* the label cells whose next sibling cell has text
AcceptedCells(label, doc) ==
    {i \in LabelCells(label, doc) :
        /\ NextSiblingTd(doc, i) # 0
        /\ clean_text(doc[NextSiblingTd(doc, i)].string) # <<>>}

\* for td in soup.find_all("td", string=label_re): ... return text
PatternB(label, doc) ==
    IF AcceptedCells(label, doc) = {} THEN Null
    ELSE Str(clean_text(doc[NextSiblingTd(doc, Min(AcceptedCells(label, doc)))].string))

\* meta = soup.find("meta", {"name": re.compile(re.escape(label), re.I)})
PatternC(label, doc) ==
    LET found == {i \in 1..Len(doc) : doc[i].tag = "meta" /\ MatchesLabel(label, doc[i].name)}
    IN  IF found # {} /\ doc[Min(found)].content # <<>>
        THEN Str(clean_text(doc[Min(found)].content))
        ELSE Null

\* the loop of GrantsGovIngestor._find_field from the k-th label on
RECURSIVE find_field_from(_, _, _)
find_field_from(ls, doc, k) ==
    IF k > Len(ls) THEN Null
    ELSE IF ~PatternA(GrantsLabelTags, ls[k], doc).null THEN PatternA(GrantsLabelTags, ls[k], doc)
    ELSE IF ~PatternB(ls[k], doc).null THEN PatternB(ls[k], doc)
    ELSE IF ~PatternC(ls[k], doc).null THEN PatternC(ls[k], doc)
    ELSE find_field_from(ls, doc, k + 1)

\* a plausible bug: each pattern is tried on every label before the next pattern
find_field_PatternMajor(ls, doc) ==
    LET a == {k \in 1..Len(ls) : ~PatternA(GrantsLabelTags, ls[k], doc).null}
        b == {k \in 1..Len(ls) : ~PatternB(ls[k], doc).null}
        c == {k \in 1..Len(ls) : ~PatternC(ls[k], doc).null}
    IN  IF a # {} THEN PatternA(GrantsLabelTags, ls[Min(a)], doc)
        ELSE IF b # {} THEN PatternB(ls[Min(b)], doc)
        ELSE IF c # {} THEN PatternC(ls[Min(c)], doc)
        ELSE Null

\* GrantsGovIngestor._find_field
find_field(ls, doc) == find_field_from(ls, doc, 1)

\* the loop of NSFIngestor._find_nsf_field from the k-th label on
RECURSIVE find_nsf_field_from(_, _, _)
find_nsf_field_from(ls, doc, k) ==
    IF k > Len(ls) THEN Null
    ELSE IF ~PatternA(NSFLabelTags, ls[k], doc).null THEN PatternA(NSFLabelTags, ls[k], doc)
    ELSE IF ~PatternB(ls[k], doc).null THEN PatternB(ls[k], doc)
    ELSE find_nsf_field_from(ls, doc, k + 1)

\* NSFIngestor._find_nsf_field
find_nsf_field(ls, doc) == find_nsf_field_from(ls, doc, 1)

CallFindField ==
    /\ pc = "find_field"
    /\ ingestor = "GrantsGovIngestor"
    /\ field' = find_field(labels, soup)
    /\ pc' = "done"
    /\ UNCHANGED <<dateVars, recordVars, tagVars, url, ingestor, opp_id, driver, launched, quits, flat_waits, pending,
                   render_out, sel_err, attempt, last_exception, fetch_log, html,
                   result, labels, soup>>

CallFindNsfField ==
    /\ pc = "find_field"
    /\ ingestor = "NSFIngestor"
    /\ field' = find_nsf_field(labels, soup)
    /\ pc' = "done"
    /\ UNCHANGED <<dateVars, recordVars, tagVars, url, ingestor, opp_id, driver, launched, quits, flat_waits, pending,
                   render_out, sel_err, attempt, last_exception, fetch_log, html,
                   result, labels, soup>>

\* field resolution applied to every document of up to MaxNodes elements
InitField ==
    /\ pc = "find_field"
    /\ ingestor \in {"GrantsGovIngestor", "NSFIngestor"}
    /\ labels \in LabelLists
    /\ soup \in Docs
    /\ field = Null
    /\ url = <<>>
    /\ opp_id = <<>>
    /\ driver = "none"
    /\ launched = 0
    /\ quits = 0
    /\ flat_waits = 0
    /\ pending = NoRender
    /\ render_out = NoRender
    /\ sel_err = "none"
    /\ attempt = 0
    /\ last_exception = "none"
    /\ fetch_log = <<>>
    /\ html = "none"
    /\ result = NoResult
    /\ tag_title = <<>>
    /\ tag_description = <<>>
    /\ use_nlp = FALSE
    /\ sklearn = FALSE
    /\ similarities = <<>>
    /\ keyword_tags = <<>>
    /\ nlp_tags = <<>>
    /\ all_tags = <<>>
    /\ record = Null
    /\ value = Null
    /\ normalized = Null

NextField ==
    \/ CallFindField
    \/ CallFindNsfField

SpecField == InitField /\ [][NextField]_vars

---------------------------------------------------------------------------
(* Properties of field resolution *)

\* what pattern p (1 = A, 2 = B, 3 = C) alone gives for a label
PatternValue(p, label) ==
    CASE p = 1 -> PatternA(IF ingestor = "GrantsGovIngestor" THEN GrantsLabelTags
                           ELSE NSFLabelTags, label, soup)
      [] p = 2 -> PatternB(label, soup)
      [] p = 3 -> PatternC(label, soup)

\* the (label, pattern) pairs that succeed, among the patterns ps
Successes(ps) ==
    {s \in (1..Len(labels)) \X ps : ~PatternValue(s[2], labels[s[1]]).null}

\* the first of them: labels in list order, and for each label the patterns in order
FirstSuccess(ps) ==
    CHOOSE s \in Successes(ps) :
        \A t \in Successes(ps) : s[1] < t[1] \/ (s[1] = t[1] /\ s[2] <= t[2])

FirstValue(ps) ==
    IF Successes(ps) = {} THEN Null
    ELSE PatternValue(FirstSuccess(ps)[2], labels[FirstSuccess(ps)[1]])

\* C9, as claimed: in both variants the value returned is that of the first
\* (label, pattern) pair that succeeds among the three patterns, None when no pair
\* succeeds.
C9_Claim == pc = "done" => field = FirstValue(1..3)

\* C9, amended: GrantsGovIngestor._find_field returns the value of the first
\* (label, pattern) pair that succeeds among the three patterns A, B, C;
\* NSFIngestor._find_nsf_field that of the first pair among the two patterns A, B,
\* having no pattern C; None when no pair succeeds.
C9_FirstPairWins ==
    pc = "done" =>
        field = FirstValue(IF ingestor = "GrantsGovIngestor" THEN 1..3 ELSE 1..2)

\* GrantsGovIngestor: the first label succeeds by pattern C only, the second label by
\* pattern A with another value, and the first label's value is returned
C9_Witness ==
    /\ pc = "done"
    /\ ingestor = "GrantsGovIngestor"
    /\ <<1, 3>> \in Successes(1..3)
    /\ <<1, 1>> \notin Successes(1..3)
    /\ <<1, 2>> \notin Successes(1..3)
    /\ <<2, 1>> \in Successes(1..3)
    /\ PatternValue(1, labels[2]) # PatternValue(3, labels[1])
    /\ field = PatternValue(3, labels[1])
    /\ field.text # <<>>

\* the text is the label, in any case, with an optional colon after it
EqualsLabel(label, x) ==
    \/ LowerSeq(clean_text(x)) = LowerSeq(label)
    \/ LowerSeq(clean_text(x)) = LowerSeq(label) \o <<":">>

\* C10, as claimed: a table cell is taken as the label cell of pattern B only when
\* its text equals the label (in any case, with an optional trailing colon): a value
\* that pattern B returns is the text of the cell after such a cell, and never the
\* text of the cell after a cell whose text merely ends with the label.
C10_Claim ==
    LET ps == IF ingestor = "GrantsGovIngestor" THEN 1..3 ELSE 1..2
    IN  (pc = "done" /\ Successes(ps) # {} /\ FirstSuccess(ps)[2] = 2) =>
            \E i \in 1..Len(soup) :
                /\ soup[i].tag = "td"
                /\ EqualsLabel(labels[FirstSuccess(ps)[1]], soup[i].string)
                /\ NextSiblingTd(soup, i) # 0
                /\ field = Str(clean_text(soup[NextSiblingTd(soup, i)].string))

---------------------------------------------------------------------------
(* Date normalisation: FundingOpportunity.normalize_date and format_date   *)
(*                                                                         *)
(* A raw date is a sequence of tokens: runs of digits, words, and the      *)
(* separators "-", "/", ",", " ".  Two runs of digits, or two words, never *)
(* stand next to each other, so a token is a maximal run.                  *)

\* longest raw date string, in tokens
MaxDateLen == 5

DateDigitTokens == {"1", "13", "45", "2024"}

DateWordTokens == {"Jan", "Foo"}

DateTokens == DateDigitTokens \cup DateWordTokens \cup {"-", "/", ",", " "}

\* len(t) of a run of digits
DateNumLen(t) ==
    CASE t = "1"    -> 1
      [] t = "13"   -> 2
      [] t = "45"   -> 2
      [] t = "2024" -> 4
      [] OTHER      -> 0

\* the strings a date field is given
DateStrings ==
    {x \in SeqsUpTo(DateTokens, MaxDateLen) :
        \A i \in 1..(Len(x) - 1) :
            /\ ~(x[i] \in DateDigitTokens /\ x[i + 1] \in DateDigitTokens)
            /\ ~(x[i] \in DateWordTokens /\ x[i + 1] \in DateWordTokens)}

\* _MONTH_MAP.get(month_str.lower()), 0 for None
MonthNum(w) == IF w = "Jan" THEN 1 ELSE 0

\* f"{n:02d}"
Pad2(n) ==
    CASE n = 1  -> "01"
      [] n = 13 -> "13"
      [] n = 45 -> "45"
      [] OTHER  -> "??"

\* int(t) of a run of one or two digits
DateInt(t) ==
    CASE t = "1"  -> 1
      [] t = "13" -> 13
      [] t = "45" -> 45
      [] OTHER    -> 0

\* (\d{1,2}) followed by something that is not a digit
IsD12(x, i) == i <= Len(x) /\ x[i] \in DateDigitTokens /\ DateNumLen(x[i]) <= 2

\* (\d{4}), the first four digits of a run
IsD4(x, i) == i <= Len(x) /\ x[i] \in DateDigitTokens /\ DateNumLen(x[i]) >= 4

\* the index after \s+ matched from i, 0 when \s+ does not match at i
RECURSIVE AfterSpaces(_, _)
AfterSpaces(x, i) ==
    IF i > Len(x) \/ x[i] \notin Whitespace THEN 0
    ELSE IF i + 1 <= Len(x) /\ x[i + 1] \in Whitespace THEN AfterSpaces(x, i + 1)
    ELSE i + 1

\* _ISO_PATTERN.match(raw)
IsoMatch(x) ==
    /\ Len(x) = 5
    /\ x[1] \in DateDigitTokens /\ DateNumLen(x[1]) = 4
    /\ x[2] = "-"
    /\ x[3] \in DateDigitTokens /\ DateNumLen(x[3]) = 2
    /\ x[4] = "-"
    /\ x[5] \in DateDigitTokens /\ DateNumLen(x[5]) = 2

\* re.match(r"(\d{1,2})/(\d{1,2})/(\d{4})", raw)
SlashMatch(x) ==
    /\ IsD12(x, 1)
    /\ Len(x) >= 2 /\ x[2] = "/"
    /\ IsD12(x, 3)
    /\ Len(x) >= 4 /\ x[4] = "/"
    /\ IsD4(x, 5)

\* f"{y}-{m:02d}-{d:02d}"
IsoOf(y, m, d) == <<y, "-", Pad2(m), "-", Pad2(d)>>

\* re.match(r"([A-Za-z]+)\s+(\d{1,2}),?\s+(\d{4})", raw): the groups, or <<>>
TextMatch(x) ==
    IF Len(x) >= 1 /\ x[1] \in DateWordTokens /\ AfterSpaces(x, 2) # 0
    THEN LET d == AfterSpaces(x, 2)
             c == IF d + 1 <= Len(x) /\ x[d + 1] = "," THEN d + 2 ELSE d + 1
             y == AfterSpaces(x, c)
         IN  IF IsD12(x, d) /\ y # 0 /\ IsD4(x, y)
             THEN <<x[1], x[d], x[y]>>
             ELSE <<>>
    ELSE <<>>

\* re.match(r"(\d{1,2})\s+([A-Za-z]+)\s+(\d{4})", raw): the groups, or <<>>
TextMatch2(x) ==
    IF IsD12(x, 1) /\ AfterSpaces(x, 2) # 0
    THEN LET w == AfterSpaces(x, 2)
             y == AfterSpaces(x, w + 1)
         IN  IF w <= Len(x) /\ x[w] \in DateWordTokens /\ y # 0 /\ IsD4(x, y)
             THEN <<x[1], x[w], x[y]>>
             ELSE <<>>
    ELSE <<>>

\* what the dateutil branch of format_date can give: the strftime("%Y-%m-%d") of
\* the datetime parsed, or None when parse raises ValueError or the import fails
DateutilOutcomes == {Str(<<"2024", "-", "01", "-", "13">>), Null}

\* format_date(raw), where fuzzy is the outcome of the dateutil branch
format_date(raw0, fuzzy) ==
    LET raw == Strip(raw0)
    IN  IF raw = <<>> THEN Null
        ELSE IF IsoMatch(raw) THEN Str(raw)
        ELSE IF SlashMatch(raw)
        THEN Str(IsoOf(raw[5], DateInt(raw[1]), DateInt(raw[3])))
        ELSE IF TextMatch(raw) # <<>> /\ MonthNum(TextMatch(raw)[1]) # 0
        THEN Str(IsoOf(TextMatch(raw)[3], MonthNum(TextMatch(raw)[1]),
                       DateInt(TextMatch(raw)[2])))
        ELSE IF TextMatch2(raw) # <<>> /\ MonthNum(TextMatch2(raw)[2]) # 0
        THEN Str(IsoOf(TextMatch2(raw)[3], MonthNum(TextMatch2(raw)[2]),
                       DateInt(TextMatch2(raw)[1])))
        ELSE fuzzy

\* FundingOpportunity.normalize_date(value)
normalize_date(v, fuzzy) ==
    IF v.null \/ v.text = <<>> \/ Strip(v.text) = <<>>
    THEN Null
    ELSE format_date(Strip(v.text), fuzzy)

\* the validator runs on a date field of a record under construction
NormalizeDate ==
    /\ pc = "normalize_date"
    /\ \E fuzzy \in DateutilOutcomes : normalized' = normalize_date(value, fuzzy)
    /\ pc' = "validated"
    /\ UNCHANGED <<recordVars, tagVars, pipelineVars, fieldVars, value>>

InitDate ==
    /\ pc = "normalize_date"
    /\ value \in {Null} \cup {Str(x) : x \in DateStrings}
    /\ normalized = Null
    /\ url = <<>>
    /\ ingestor = "none"
    /\ opp_id = <<>>
    /\ driver = "none"
    /\ launched = 0
    /\ quits = 0
    /\ flat_waits = 0
    /\ pending = NoRender
    /\ render_out = NoRender
    /\ sel_err = "none"
    /\ attempt = 0
    /\ last_exception = "none"
    /\ fetch_log = <<>>
    /\ html = "none"
    /\ result = NoResult
    /\ tag_title = <<>>
    /\ tag_description = <<>>
    /\ use_nlp = FALSE
    /\ sklearn = FALSE
    /\ similarities = <<>>
    /\ keyword_tags = <<>>
    /\ nlp_tags = <<>>
    /\ all_tags = <<>>
    /\ record = Null
    /\ labels = <<>>
    /\ soup = <<>>
    /\ field = Null

NextDate == NormalizeDate

SpecDate == InitDate /\ [][NextDate]_vars

\* the months and the days a date string of the form YYYY-MM-DD can name
MonthStrings == {"01"}

DayStrings == {"01", "13"}

\* x is YYYY-MM-DD with MM in 01..12 and DD in 01..31
IsIsoDate(x) ==
    /\ Len(x) = 5
    /\ x[1] \in DateDigitTokens /\ DateNumLen(x[1]) = 4
    /\ x[2] = "-"
    /\ x[3] \in MonthStrings
    /\ x[4] = "-"
    /\ x[5] \in DayStrings

\* C11, as claimed: whatever raw string a date field is given, the value stored is
\* null or a date string YYYY-MM-DD with the month in 01..12 and the day in 01..31.
C11_Claim ==
    pc = "validated" => (normalized.null \/ IsIsoDate(normalized.text))

---------------------------------------------------------------------------
(* Building the record: GrantsGovIngestor._parse_html, NSFIngestor.extract *)
(* from soup on, and the validators of FundingOpportunity                  *)

\* the words of a phrase, joined by single spaces
RECURSIVE Phrase(_)
Phrase(w) == IF Len(w) <= 1 THEN w ELSE <<w[1], " ">> \o Phrase(Tail(w))

\* x or y, for x an Optional[str]
OrElse(x, y) == IF x.null \/ x.text = <<>> THEN y ELSE x

\* the label lists of GrantsGovIngestor._parse_html
GrantsTitleLabels ==
    << Phrase(<<"Funding", "Opportunity", "Title">>),
       Phrase(<<"Opportunity", "Title">>),
       <<"Title">> >>

GrantsAgencyLabels == << Phrase(<<"Agency", "Name">>), <<"Agency">>, <<"Department">> >>

GrantsNumberLabels ==
    << Phrase(<<"Funding", "Opportunity", "Number">>), Phrase(<<"Opportunity", "Number">>) >>

GrantsOpenLabels ==
    << Phrase(<<"Posted", "Date">>), Phrase(<<"Open", "Date">>), Phrase(<<"Post", "Date">>) >>

GrantsCloseLabels ==
    << Phrase(<<"Current", "Closing", "Date", "for", "Applications">>),
       Phrase(<<"Close", "Date">>),
       Phrase(<<"Closing", "Date">>),
       Phrase(<<"Original", "Closing", "Date", "for", "Applications">>),
       Phrase(<<"Application", "Deadline">>) >>

GrantsEligibilityLabels == << Phrase(<<"Eligible", "Applicants">>), <<"Eligibility">> >>

GrantsDescriptionLabels ==
    << <<"Description">>, <<"Synopsis">>, Phrase(<<"Opportunity", "Description">>) >>

GrantsCeilingLabels ==
    << Phrase(<<"Award", "Ceiling">>),
       Phrase(<<"Estimated", "Total", "Program", "Funding">>) >>

GrantsFloorLabels == << Phrase(<<"Award", "Floor">>) >>

GrantsExpectedLabels == << Phrase(<<"Expected", "Number", "of", "Awards">>) >>

\* the label lists of NSFIngestor.extract
NSFTitleLabels == << <<"Title">>, Phrase(<<"Award", "Title">>) >>

NSFAbstractLabels == << <<"Abstract">>, <<"Synopsis">>, Phrase(<<"Program", "Synopsis">>) >>

NSFStartLabels ==
    << Phrase(<<"Start", "Date">>), Phrase(<<"Effective", "Date">>),
       Phrase(<<"Award", "Effective", "Date">>) >>

NSFEndLabels ==
    << Phrase(<<"End", "Date">>), Phrase(<<"Expiration", "Date">>),
       Phrase(<<"Award", "Expiration", "Date">>) >>

NSFEligibilityLabels ==
    << <<"Eligible">>, <<"Eligibility">>, Phrase(<<"Who", "May", "Submit">>) >>

NSFAmountLabels ==
    << Phrase(<<"Award", "Amount">>), Phrase(<<"Awarded", "Amount">>),
       Phrase(<<"Estimated", "Total">>) >>

\* the first element of doc with one of the tags, 0 for None
FindTag(doc, tags) ==
    LET found == {i \in 1..Len(doc) : doc[i].tag \in tags}
    IN  IF found = {} THEN 0 ELSE Min(found)

\* skip, of GrantsGovIngestor._get_page_title
SkipPhrases == { <<"grants.gov">>, Phrase(<<"search", "results">>),
                 Phrase(<<"view", "grant">>), <<"lock">> }

Unknown == <<"Unknown">>

\* a plausible bug: the h1 text is filtered with the whole skip list
grants_get_page_title_SkipH1(doc) ==
    LET t == FindTag(doc, {"title"})
        h == FindTag(doc, {"h1"})
        ttext == IF t = 0 THEN <<>> ELSE Strip(doc[t].string)
        htext == IF h = 0 THEN <<>> ELSE Strip(doc[h].string)
    IN  IF t # 0 /\ ttext # <<>> /\ \A s \in SkipPhrases : ~Contains(s, LowerSeq(ttext))
        THEN Str(ttext)
        ELSE IF h # 0 /\ htext # <<>> /\ \A s \in SkipPhrases : ~Contains(s, LowerSeq(htext))
        THEN Str(htext)
        ELSE Str(Unknown)

\* GrantsGovIngestor._get_page_title
grants_get_page_title(doc) ==
    LET t == FindTag(doc, {"title"})
        h == FindTag(doc, {"h1"})
        ttext == IF t = 0 THEN <<>> ELSE Strip(doc[t].string)
        htext == IF h = 0 THEN <<>> ELSE Strip(doc[h].string)
    IN  IF /\ t # 0
           /\ ttext # <<>>
           /\ \A s \in SkipPhrases : ~Contains(s, LowerSeq(ttext))
        THEN Str(ttext)
        ELSE IF /\ h # 0
                /\ htext # <<>>
                /\ ~Contains(Phrase(<<"view", "grant">>), LowerSeq(htext))
        THEN Str(htext)
        ELSE Str(Unknown)

\* NSFIngestor._get_page_title
nsf_get_page_title(doc) ==
    LET h == FindTag(doc, {"h1"})
        t == FindTag(doc, {"title"})
    IN  IF h # 0 THEN Str(Strip(doc[h].string))
        ELSE IF t # 0 THEN Str(Strip(doc[t].string))
        ELSE Str(Unknown)

\* soup.find("div", {"id": re.compile(r"synopsis|description", re.I)}), 0 for None
SynopsisDiv(doc) ==
    LET found == {i \in 1..Len(doc) :
                     /\ doc[i].tag = "div"
                     /\ \/ Contains(<<"synopsis">>, LowerSeq(doc[i].name))
                        \/ Contains(<<"description">>, LowerSeq(doc[i].name))}
    IN  IF found = {} THEN 0 ELSE Min(found)

\* the first div whose id and class hold one of abstract, synopsis, description
AbstractDiv(doc) ==
    LET found == {i \in 1..Len(doc) :
                     /\ doc[i].tag = "div"
                     /\ \E k \in {"abstract", "synopsis", "description"} :
                            Contains(<<k>>, LowerSeq(doc[i].name))}
    IN  IF found = {} THEN 0 ELSE Min(found)

\* self.clean_text(x) for x an Optional[str]
CleanOpt(x) == IF x.null THEN Str(<<>>) ELSE Str(clean_text(x.text))

\* FundingOpportunity.strip_whitespace
strip_whitespace(x) == IF x.null THEN x ELSE Str(Strip(x.text))

\* FundingOpportunity.coerce_empty_strings, on one of agency, eligibility, description
coerce_empty_strings(x) == IF ~x.null /\ Strip(x.text) = <<>> THEN Str(<<>>) ELSE x

\* FundingOpportunity(**f): the field validators, then the model validator; fo and
\* fc are the outcomes of the dateutil branch for open_date and close_date
FundingOpportunity(f, fo, fc) ==
    [ foa_id          |-> strip_whitespace(f.foa_id),
      title           |-> strip_whitespace(f.title),
      agency          |-> coerce_empty_strings(f.agency),
      open_date       |-> normalize_date(f.open_date, fo),
      close_date      |-> normalize_date(f.close_date, fc),
      eligibility     |-> coerce_empty_strings(f.eligibility),
      description     |-> coerce_empty_strings(f.description),
      source_url      |-> f.source_url,
      award_ceiling   |-> f.award_ceiling,
      award_floor     |-> f.award_floor,
      expected_awards |-> f.expected_awards ]

\* GrantsGovIngestor._parse_html, from soup on
parse_html(doc, u, oid, fo, fc) ==
    LET title == OrElse(find_field(GrantsTitleLabels, doc), grants_get_page_title(doc))
        opp_number == OrElse(find_field(GrantsNumberLabels, doc), Str(oid))
        found == find_field(GrantsDescriptionLabels, doc)
        description ==
            IF (found.null \/ found.text = <<>>) /\ SynopsisDiv(doc) # 0
            THEN Str(clean_text(doc[SynopsisDiv(doc)].string))
            ELSE found
    IN  FundingOpportunity(
            [ foa_id          |-> opp_number,
              title           |-> OrElse(title, Str(Unknown)),
              agency          |-> OrElse(find_field(GrantsAgencyLabels, doc), Str(<<>>)),
              open_date       |-> find_field(GrantsOpenLabels, doc),
              close_date      |-> find_field(GrantsCloseLabels, doc),
              eligibility     |-> OrElse(find_field(GrantsEligibilityLabels, doc), Str(<<>>)),
              description     |-> CleanOpt(description),
              source_url      |-> Str(u),
              award_ceiling   |-> find_field(GrantsCeilingLabels, doc),
              award_floor     |-> find_field(GrantsFloorLabels, doc),
              expected_awards |-> find_field(GrantsExpectedLabels, doc) ],
            fo, fc)

\* NSFIngestor.extract, from soup on
nsf_build(doc, u, fo, fc) ==
    LET title == OrElse(find_nsf_field(NSFTitleLabels, doc), nsf_get_page_title(doc))
        found == find_nsf_field(NSFAbstractLabels, doc)
        abstract ==
            IF (found.null \/ found.text = <<>>) /\ AbstractDiv(doc) # 0
            THEN Str(clean_text(doc[AbstractDiv(doc)].string))
            ELSE found
    IN  FundingOpportunity(
            [ foa_id          |-> Str(nsf_foa_id(u)),
              title           |-> OrElse(title, Str(Unknown)),
              agency          |-> Str(Phrase(<<"National", "Science", "Foundation">>)),
              open_date       |-> find_nsf_field(NSFStartLabels, doc),
              close_date      |-> find_nsf_field(NSFEndLabels, doc),
              eligibility     |-> OrElse(find_nsf_field(NSFEligibilityLabels, doc), Str(<<>>)),
              description     |-> CleanOpt(abstract),
              source_url      |-> Str(u),
              award_ceiling   |-> find_nsf_field(NSFAmountLabels, doc),
              award_floor     |-> Null,
              expected_awards |-> Null ],
            fo, fc)

ParseHtml ==
    /\ pc = "parse_html"
    /\ ingestor = "GrantsGovIngestor"
    /\ \E fo \in DateutilOutcomes, fc \in DateutilOutcomes :
          record' = parse_html(soup, url, opp_id, fo, fc)
    /\ pc' = "built"
    /\ UNCHANGED <<dateVars, tagVars, pipelineVars, fieldVars>>

NSFParse ==
    /\ pc = "parse_html"
    /\ ingestor = "NSFIngestor"
    /\ \E fo \in DateutilOutcomes, fc \in DateutilOutcomes :
          record' = nsf_build(soup, url, fo, fc)
    /\ pc' = "built"
    /\ UNCHANGED <<dateVars, tagVars, pipelineVars, fieldVars>>

NextRecord ==
    \/ ParseHtml
    \/ NSFParse

\* the state in which an ingestor holds the parsed document doc
AtParse(doc) ==
    /\ pc = "parse_html"
    /\ soup = doc
    /\ \/ /\ ingestor = "GrantsGovIngestor"
          /\ url = MakeUrl(<<"www.", "grants", ".gov">>, <<"/", "view", "/", "12">>)
          /\ opp_id = <<"12">>
       \/ /\ ingestor = "NSFIngestor"
          /\ url = MakeUrl(<<"www.", "nsf", ".gov">>, <<"/", "view">>)
          /\ opp_id = <<>>
    /\ record = Null
    /\ value = Null
    /\ normalized = Null
    /\ labels = <<>>
    /\ field = Null
    /\ driver = "none"
    /\ launched = 0
    /\ quits = 0
    /\ flat_waits = 0
    /\ pending = NoRender
    /\ render_out = NoRender
    /\ sel_err = "none"
    /\ attempt = 0
    /\ last_exception = "none"
    /\ fetch_log = <<>>
    /\ html = "none"
    /\ result = NoResult
    /\ tag_title = <<>>
    /\ tag_description = <<>>
    /\ use_nlp = FALSE
    /\ sklearn = FALSE
    /\ similarities = <<>>
    /\ keyword_tags = <<>>
    /\ nlp_tags = <<>>
    /\ all_tags = <<>>

T_Agency == <<"Agency">>

T_AwardCeiling == <<"Award", " ", "Ceiling">>

T_AwardAmount == <<"Award", " ", "Amount">>

RecordTexts == {T_Agency, T_AwardCeiling, T_AwardAmount, T_CloseDate, T_Jan1, T_Blank}

\* the elements of the documents a record is built from
RecordNodes ==
    {Node("tr", <<>>, <<>>, <<>>)}
    \cup {Node(t, x, <<>>, <<>>) : t \in {"th", "td"}, x \in RecordTexts}
    \cup {Node("meta", <<>>, n, c) : n \in {T_Agency, T_AwardCeiling, T_CloseDate},
                                     c \in {T_Jan1, T_Blank}}
    \cup {Node("div", T_Jan1, <<"synopsis">>, <<>>)}

RecordDocs == SeqsUpTo(RecordNodes, MaxNodes)

InitRecord == \E doc \in RecordDocs : AtParse(doc)

SpecRecord == InitRecord /\ [][NextRecord]_vars

StringFields == {"agency", "eligibility", "description"}

NullCapableFields ==
    {"open_date", "close_date", "award_ceiling", "award_floor", "expected_awards"}

\* C12, as claimed: in every record built, agency, eligibility and description are
\* never null, and open_date, close_date, award_ceiling, award_floor and
\* expected_awards are never the empty string.
C12_Claim ==
    pc = "built" =>
        /\ \A f \in StringFields : ~record[f].null
        /\ \A f \in NullCapableFields : record[f].null \/ record[f].text # <<>>

---------------------------------------------------------------------------
(* Tagging: tag_by_keywords, tag_by_tfidf and apply_tags                   *)
(*                                                                         *)
(* A text is a sequence of words, joined by single spaces.  The model      *)
(* keeps the first NumCategories entries of KEYWORD_TAG_MAP, with the      *)
(* keywords of each that the words of the texts can match.  The cosine     *)
(* similarities, which scikit-learn computes, are an input.                *)

\* categories of KEYWORD_TAG_MAP kept, in its order
NumCategories == 4

\* most words of a title
MaxTitleWords == 1

\* most words of a description
MaxDescriptionWords == 1

\* if len(combined_text.strip()) < 10
MinTfidfChars == 10

\* tfidf_threshold = 0.08, in hundredths
TfidfThreshold == 8

KEYWORD_TAG_MAP ==
    << [tag |-> "Artificial Intelligence", keywords |-> {<<"ai">>, <<"neural">>}],
       [tag |-> "Health / Medicine",       keywords |-> {<<"health">>, <<"mental", "health">>}],
       [tag |-> "Infrastructure",          keywords |-> {<<"bridge">>}],
       [tag |-> "Environment / Climate",   keywords |-> {<<"climate">>}],
       [tag |-> "Education",               keywords |-> {<<"student">>}],
       [tag |-> "Agriculture",             keywords |-> {<<"crop">>}] >>

Categories == 1..Min({NumCategories, Len(KEYWORD_TAG_MAP)})

\* the place of a category name in the order of sorted(), which compares strings
\* by code point
SortKey(tag) ==
    CASE tag = "Agriculture"             -> 1
      [] tag = "Artificial Intelligence" -> 2
      [] tag = "Education"               -> 3
      [] tag = "Environment / Climate"   -> 4
      [] tag = "Health / Medicine"       -> 5
      [] tag = "Infrastructure"          -> 6

TagWords == {"AI", "health", "mental", "bridge", "climate"}

\* str.lower() of a word
LowerWord(w) == IF w = "AI" THEN "ai" ELSE w

\* len(w)
WordLen(w) ==
    CASE w = "AI"      -> 2
      [] w = "health"  -> 6
      [] w = "mental"  -> 6
      [] w = "bridge"  -> 6
      [] w = "climate" -> 7

\* the words of title + " " + description
CombinedWords(t, d) == t \o d

RECURSIVE SumLen(_)
SumLen(ws) == IF ws = <<>> THEN 0 ELSE WordLen(ws[1]) + SumLen(Tail(ws))

\* len(f"{title} {description}".strip())
CombinedLen(t, d) ==
    IF CombinedWords(t, d) = <<>> THEN 0
    ELSE SumLen(CombinedWords(t, d)) + Len(CombinedWords(t, d)) - 1

\* re.search(r"\b" + re.escape(keyword) + r"\b", combined)
KeywordFound(keyword, t, d) ==
    Contains(keyword, [i \in 1..Len(CombinedWords(t, d)) |-> LowerWord(CombinedWords(t, d)[i])])

\* the loop of tag_by_keywords: matched_tags, in the order of KEYWORD_TAG_MAP
RECURSIVE matched_tags_from(_, _, _)
matched_tags_from(k, t, d) ==
    IF k \notin Categories THEN <<>>
    ELSE (IF \E kw \in KEYWORD_TAG_MAP[k].keywords : KeywordFound(kw, t, d)
          THEN <<KEYWORD_TAG_MAP[k].tag>>
          ELSE <<>>) \o matched_tags_from(k + 1, t, d)

\* sorted(S), for S a set of category names
RECURSIVE Sorted(_)
Sorted(S) ==
    IF S = {} THEN <<>>
    ELSE LET m == CHOOSE x \in S : \A y \in S : SortKey(x) <= SortKey(y)
         IN  <<m>> \o Sorted(S \ {m})

\* the elements of a sequence, as a set
Range(s) == {s[i] : i \in 1..Len(s)}

\* a plausible bug: the matches are returned in the order of KEYWORD_TAG_MAP
tag_by_keywords_Unsorted(t, d) == matched_tags_from(1, t, d)

\* tag_by_keywords
tag_by_keywords(t, d) == Sorted(Range(matched_tags_from(1, t, d)))

\* the loop over enumerate(similarities): matched, as category indices
RECURSIVE matched_from(_, _)
matched_from(k, sims) ==
    IF k > Len(sims) THEN <<>>
    ELSE (IF sims[k] >= TfidfThreshold THEN <<k>> ELSE <<>>) \o matched_from(k + 1, sims)

\* list.sort(key=score, reverse=True), which is stable: x goes after the elements
\* whose score is not lower
RECURSIVE InsertDesc(_, _, _)
InsertDesc(x, s, sims) ==
    IF s = <<>> THEN <<x>>
    ELSE IF sims[s[1]] >= sims[x] THEN <<s[1]>> \o InsertDesc(x, Tail(s), sims)
    ELSE <<x>> \o s

RECURSIVE SortDesc(_, _)
SortDesc(s, sims) ==
    IF s = <<>> THEN <<>>
    ELSE InsertDesc(s[Len(s)], SortDesc(SubSeq(s, 1, Len(s) - 1), sims), sims)

\* tag_by_tfidf; ok says whether the import of scikit-learn succeeds
tag_by_tfidf(t, d, ok, sims) ==
    IF ~ok THEN <<>>
    ELSE IF CombinedLen(t, d) < MinTfidfChars THEN <<>>
    ELSE LET sorted == SortDesc(matched_from(1, sims), sims)
         IN  [i \in 1..Len(sorted) |-> KEYWORD_TAG_MAP[sorted[i]].tag]

\* list(dict.fromkeys(s))
RECURSIVE FromKeys(_)
FromKeys(s) ==
    IF s = <<>> THEN <<>>
    ELSE LET front == FromKeys(SubSeq(s, 1, Len(s) - 1))
         IN  IF s[Len(s)] \in Range(front) THEN front ELSE Append(front, s[Len(s)])

\* keyword_tags = tag_by_keywords(title, description)
TagByKeywords ==
    /\ pc = "apply_tags"
    /\ keyword_tags' = tag_by_keywords(tag_title, tag_description)
    /\ pc' = "if_use_nlp"
    /\ UNCHANGED <<dateVars, recordVars, pipelineVars, fieldVars, tag_title,
                   tag_description, use_nlp, sklearn, similarities, nlp_tags, all_tags>>

\* if use_nlp: nlp_tags = tag_by_tfidf(...); all_tags = list(dict.fromkeys(...))
TagByTfidf ==
    /\ pc = "if_use_nlp"
    /\ use_nlp
    /\ nlp_tags' = tag_by_tfidf(tag_title, tag_description, sklearn, similarities)
    /\ all_tags' = FromKeys(keyword_tags \o nlp_tags')
    /\ pc' = "tagged"
    /\ UNCHANGED <<dateVars, recordVars, pipelineVars, fieldVars, tag_title,
                   tag_description, use_nlp, sklearn, similarities, keyword_tags>>

\* else: all_tags = keyword_tags
KeywordsOnly ==
    /\ pc = "if_use_nlp"
    /\ ~use_nlp
    /\ all_tags' = keyword_tags
    /\ pc' = "tagged"
    /\ UNCHANGED <<dateVars, recordVars, pipelineVars, fieldVars, tag_title,
                   tag_description, use_nlp, sklearn, similarities, keyword_tags,
                   nlp_tags>>

\* the similarities a category can have: below, at and above the threshold
Scores == {TfidfThreshold - 1, TfidfThreshold, TfidfThreshold + 1}

InitTags ==
    /\ pc = "apply_tags"
    /\ tag_title \in SeqsUpTo(TagWords, MaxTitleWords)
    /\ tag_description \in SeqsUpTo(TagWords, MaxDescriptionWords)
    /\ use_nlp \in BOOLEAN
    /\ sklearn \in BOOLEAN
    /\ similarities \in [Categories -> Scores]
    /\ keyword_tags = <<>>
    /\ nlp_tags = <<>>
    /\ all_tags = <<>>
    /\ record = Null
    /\ value = Null
    /\ normalized = Null
    /\ url = <<>>
    /\ ingestor = "none"
    /\ opp_id = <<>>
    /\ driver = "none"
    /\ launched = 0
    /\ quits = 0
    /\ flat_waits = 0
    /\ pending = NoRender
    /\ render_out = NoRender
    /\ sel_err = "none"
    /\ attempt = 0
    /\ last_exception = "none"
    /\ fetch_log = <<>>
    /\ html = "none"
    /\ result = NoResult
    /\ labels = <<>>
    /\ soup = <<>>
    /\ field = Null

NextTags ==
    \/ TagByKeywords
    \/ TagByTfidf
    \/ KeywordsOnly

SpecTags == InitTags /\ [][NextTags]_vars

\* the index of a category in KEYWORD_TAG_MAP
TagIndex(tag) == CHOOSE k \in 1..Len(KEYWORD_TAG_MAP) : KEYWORD_TAG_MAP[k].tag = tag

\* the similarity of a category
Score(tag) == similarities[TagIndex(tag)]

\* the categories one of whose keywords is a word, or a run of words, of the text
KeywordCategories ==
    {KEYWORD_TAG_MAP[k].tag : k \in {c \in Categories :
        \E kw \in KEYWORD_TAG_MAP[c].keywords :
            KeywordFound(kw, tag_title, tag_description)}}

NotKeywordTag(t) == t \notin Range(keyword_tags)

\* C13: apply_tags returns the keyword-pass matches in alphabetical order, then the
\* vector-pass matches in descending order of similarity, without the categories
\* already there: no category occurs twice, the keyword-pass list is a prefix of
\* the result, and with use_nlp false the result is the keyword-pass list.
C13_MergeOrder ==
    pc = "tagged" =>
        /\ \A i, j \in 1..Len(all_tags) : i < j => all_tags[i] # all_tags[j]
        /\ Range(keyword_tags) = KeywordCategories
        /\ \A i, j \in 1..Len(keyword_tags) :
              i < j => SortKey(keyword_tags[i]) < SortKey(keyword_tags[j])
        /\ Len(all_tags) >= Len(keyword_tags)
        /\ SubSeq(all_tags, 1, Len(keyword_tags)) = keyword_tags
        /\ use_nlp =>
              /\ \A i, j \in 1..Len(nlp_tags) :
                    i < j => Score(nlp_tags[i]) >= Score(nlp_tags[j])
              /\ \A i \in 1..Len(nlp_tags) : Score(nlp_tags[i]) >= TfidfThreshold
              /\ SubSeq(all_tags, Len(keyword_tags) + 1, Len(all_tags))
                    = SelectSeq(nlp_tags, NotKeywordTag)
        /\ ~use_nlp => all_tags = keyword_tags

\* two categories from the keyword pass, in another order than KEYWORD_TAG_MAP's,
\* one of them found by the vector pass too, which adds a third category
C13_Witness ==
    /\ pc = "tagged"
    /\ use_nlp
    /\ keyword_tags = <<"Environment / Climate", "Health / Medicine">>
    /\ "Health / Medicine" \in Range(nlp_tags)
    /\ Len(nlp_tags) >= 2
    /\ Len(all_tags) = 3

---------------------------------------------------------------------------
(* Claims about the whole program, continued *)

\* an exception was raised while the HTML that rendering delivered was parsed or
\* the record was built from it: extract's except clause caught it, or it reached
\* the caller
RenderedParseFailed ==
    /\ render_out.kind = "html"
    /\ \/ sel_err # "none"
       \/ result.kind = "raised" /\ result.what = "ParseFailure"

\* C14, as claimed: an exception raised while successfully rendered HTML is parsed
\* propagates to the caller of extract: the call ends with that failure, no GET is
\* issued and no record is returned.
C14_Claim ==
    RenderedParseFailed =>
        /\ pc = "done"
        /\ result.kind = "raised"
        /\ result.what = "ParseFailure"
        /\ fetch_log = <<>>

\* the rendering path of extract failed: render_with_selenium raised or, in
\* GrantsGovIngestor, parsing the rendered HTML raised, and extract caught it
RenderPathFailed ==
    /\ sel_err # "none"
    /\ \/ render_out.kind = "raised"
       \/ ingestor = "GrantsGovIngestor" /\ render_out.kind = "html"

\* C16: one call of extract launches at most one browser session and issues at most
\* 3 GETs; a GET is issued, and fetch_with_retry is entered, only after the
\* rendering path has failed; a record parsed from the rendered HTML is returned
\* with no GET at all.
C16_OneSessionThreeGets ==
    /\ launched <= 1
    /\ Len(Gets) <= MAX_RETRIES
    /\ (fetch_log # <<>> \/ InFetch) => RenderPathFailed
    /\ (render_out.kind = "html" /\ sel_err = "none") => (fetch_log = <<>> /\ ~InFetch)
    /\ (result.kind = "record" /\ result.html = "rendered") =>
          /\ launched = 1
          /\ sel_err = "none"
          /\ fetch_log = <<>>
    /\ (result.kind = "record" /\ result.html = "static") =>
          /\ RenderPathFailed
          /\ Len(Gets) >= 1

\* NSFIngestor: the page was rendered in the one session launched, and the record
\* was built from it without a GET
C16_Witness ==
    /\ pc = "done"
    /\ ingestor = "NSFIngestor"
    /\ launched = 1
    /\ quits = 1
    /\ result.kind = "record"
    /\ result.html = "rendered"
    /\ fetch_log = <<>>

---------------------------------------------------------------------------
(* The title of the record *)

T_Title == <<"Title">>

T_GrantsGov == <<"Grants.gov">>

T_SearchResults == <<"Search", " ", "Results">>

T_ViewGrant == <<"View", " ", "Grant">>

T_ResearchGrant == <<"Research", " ", "Grant">>

TitleTexts == {T_GrantsGov, T_SearchResults, T_ViewGrant, T_ResearchGrant, T_Blank}

\* the elements of the documents the title is taken from: a labelled title field,
\* title elements and h1 elements
TitleNodes ==
    {Node("th", T_Title, <<>>, <<>>)}
    \cup {Node("td", x, <<>>, <<>>) : x \in {T_ResearchGrant, T_Blank}}
    \cup {Node(t, x, <<>>, <<>>) : t \in {"title", "h1"}, x \in TitleTexts}

TitleDocs == SeqsUpTo(TitleNodes, MaxNodes)

InitTitle == \E doc \in TitleDocs : AtParse(doc)

SpecTitle == InitTitle /\ [][NextRecord]_vars

\* what the labelled title field resolves to
ExplicitTitle ==
    IF ingestor = "GrantsGovIngestor"
    THEN find_field(GrantsTitleLabels, soup)
    ELSE find_nsf_field(NSFTitleLabels, soup)

NoExplicitTitle == ExplicitTitle.null \/ ExplicitTitle.text = <<>>

\* the boilerplate phrases: the generic site name, "search results", "view grant"
Boilerplate == { <<"grants.gov">>, Phrase(<<"search", "results">>), Phrase(<<"view", "grant">>) }

HasBoilerplate(x) == \E b \in Boilerplate : Contains(b, LowerSeq(x))

\* the stripped text of the first element with the tag; <<>> when there is none
FirstText(doc, tag) ==
    IF FindTag(doc, {tag}) = 0 THEN <<>> ELSE Strip(doc[FindTag(doc, {tag})].string)

\* C15, as claimed: in both variants, when no explicit title field resolves, the
\* title of the record contains no boilerplate phrase.
C15_Claim ==
    (pc = "built" /\ NoExplicitTitle) => ~HasBoilerplate(record.title.text)

\* C15, amended: when no explicit title field resolves, GrantsGovIngestor takes the
\* text of the first title element unless it is blank or contains "grants.gov",
\* "search results", "view grant" or "lock"; otherwise the text of the first h1
\* unless it is blank or contains "view grant"; otherwise "Unknown": its title
\* never contains "view grant", and contains another boilerplate phrase only when it
\* is the h1 text.  NSFIngestor takes the text of the first h1 if there is an h1,
\* otherwise that of the first title element, unfiltered, and "Unknown" when the
\* text taken is blank or there is neither element.
C15_TitleFallback ==
    (pc = "built" /\ NoExplicitTitle) =>
        LET title == record.title.text
            ttext == FirstText(soup, "title")
            htext == FirstText(soup, "h1")
            tpass == ttext # <<>> /\ \A s \in SkipPhrases : ~Contains(s, LowerSeq(ttext))
            hpass == htext # <<>> /\ ~Contains(Phrase(<<"view", "grant">>), LowerSeq(htext))
        IN  IF ingestor = "GrantsGovIngestor"
            THEN /\ title \in {ttext, htext, Unknown}
                 /\ title # <<>>
                 /\ ~Contains(Phrase(<<"view", "grant">>), LowerSeq(title))
                 /\ HasBoilerplate(title) => (title = htext /\ ~tpass)
                 /\ tpass => title = ttext
                 /\ (~tpass /\ hpass) => title = htext
                 /\ (~tpass /\ ~hpass) => title = Unknown
            ELSE /\ FindTag(soup, {"h1"}) # 0 =>
                       title = (IF htext # <<>> THEN htext ELSE Unknown)
                 /\ (FindTag(soup, {"h1"}) = 0 /\ FindTag(soup, {"title"}) # 0) =>
                       title = (IF ttext # <<>> THEN ttext ELSE Unknown)
                 /\ (FindTag(soup, {"h1"}) = 0 /\ FindTag(soup, {"title"}) = 0) =>
                       title = Unknown

\* GrantsGovIngestor: the title element is filtered as boilerplate and the title of
\* the record is the text of the h1, "Search Results"
C15_Witness ==
    /\ pc = "built"
    /\ ingestor = "GrantsGovIngestor"
    /\ NoExplicitTitle
    /\ FirstText(soup, "title") = T_GrantsGov
    /\ record.title.text = T_SearchResults

===========================================================================
